---- MODULE Spec2Model ----
(***************************************************************************)
(* A model of install.py: the VDF configuration parser (parse_vdf), the    *)
(* path overlay (InstallSimulator) and the transactional installer         *)
(* (Installer), together with the properties checked of them.              *)
(*                                                                         *)
(* Paths are sequences of name components; the target root is <<>>.  A     *)
(* disk entry is <<"absent",0>>, <<"dir",0>> or <<"file",c>> with c the    *)
(* file's content.  A pending operation is <<"none",NoSrc>> (Python's      *)
(* None: Remove), <<"dir",NoSrc>> ([M_DIR]) or <<"file",src>> ([M_FILE,    *)
(* abspath(src)]) where src = <<tree, leaf>> names a file of a source tree.*)
(***************************************************************************)
EXTENDS Integers, Sequences, FiniteSets, TLC

VARIABLES
  disk,      \* the target root: key -> entry
  stray,     \* the paths written under the root outside the modelled keys
  metaDisk,  \* the metafile on disk
  sources,   \* the source trees, in the order they are installed
  ins,       \* the Installer of the running process
  pc,        \* where the running process is
  idx,       \* the position of commit's loop in the changes
  preview,   \* the lines summarize printed
  out,       \* the lines commit printed
  hist,      \* the runs so far: the planning calls and how each run ended
  disk0,     \* the target root at the start
  rec0,      \* the metafile at the start
  recStart,  \* the metafile when the running process constructed its Installer
  edited,    \* the files a user changed between runs, with their new content
  calls,     \* the calls of the planning primitives made on a bare overlay
  vdf        \* the parser: its input and the state of parse_vdf

vars == <<disk, stray, metaDisk, sources, ins, pc, idx, preview, out, hist,
          disk0, rec0, recStart, edited, calls, vdf>>

\* What the runs of the installer leave alone.
aux == <<calls, vdf, rec0>>

(***************************************************************************)
(* Bounds of the model.                                                    *)
(***************************************************************************)
NumContents == 2

MaxRuns == 2

MaxTrees == 1

MaxCrashes == 1

MaxEdits == 1

MaxForeign == 2

MaxRecord == 1

MaxCalls == 3

\* The longest stream, the longest key or value, the deepest nesting.
MaxLen == 13

MaxStr == 1

\* The longest run of whitespace between two tokens.
MaxWs == 2

MaxDepth == 2

(***************************************************************************)
(* Paths.                                                                  *)
(***************************************************************************)
Root == <<>>

\* The normalized paths of the modelled target root.
NKeys ==
  { <<"bin">>, <<"bin", "bink2w64.dll">>, <<"bin", "x">>, <<"bin", "x", "x">>,
    <<"y">> }

BLACKLIST ==
  { <<"bin", "bink2w64.dll">>, <<"bin", "bink2w64_original.dll">> }

Contents == 1..NumContents

Parent(p) == SubSeq(p, 1, Len(p) - 1)

IsPrefix(p, q) == Len(p) <= Len(q) /\ SubSeq(q, 1, Len(p)) = p

\* os.path.normpath(os.path.relpath(join(root, path), root)): "." components
\* are dropped; the empty path is the key "." (Root here).
RECURSIVE normpath(_)
normpath(p) ==
  IF p = <<>> THEN <<>>
  ELSE IF p[1] = "." THEN normpath(Tail(p))
  ELSE <<p[1]>> \o normpath(Tail(p))

\* The number of characters of a path written with one separator between
\* its components; the key of the root is ".".
RECURSIVE StrLen(_)
StrLen(p) ==
  IF p = <<>> THEN 1
  ELSE IF Len(p) = 1 THEN Len(p[1])
  ELSE Len(p[1]) + 1 + StrLen(Tail(p))

(***************************************************************************)
(* The real disk, as os.path sees it under the root.                       *)
(***************************************************************************)
Absent == <<"absent", 0>>
DirEntry == <<"dir", 0>>
FileEntry(c) == <<"file", c>>

RealEntry(d, path) ==
  LET key == normpath(path) IN
  IF key = Root THEN DirEntry
  ELSE IF key \in DOMAIN d THEN d[key]
  ELSE Absent

RealExists(d, path) == RealEntry(d, path)[1] # "absent"
RealIsDir(d, path) == RealEntry(d, path)[1] = "dir"
RealIsFile(d, path) == RealEntry(d, path)[1] = "file"

\* os.listdir of a real directory: the keys of its children.
RealChildren(d, key) ==
  { k \in DOMAIN d : Len(k) = Len(key) + 1 /\ IsPrefix(key, k) /\ d[k] # Absent }

\* A disk is a tree: whatever exists lies in a directory.
DiskOk(d) ==
  \A k \in DOMAIN d : d[k] # Absent => RealIsDir(d, Parent(k))

DiskStates ==
  { d \in [NKeys -> {Absent, DirEntry} \cup { FileEntry(c) : c \in Contents }] :
      DiskOk(d) }

EmptyDisk == [k \in NKeys |-> Absent]

\* The roots a first run starts from: at most MaxForeign entries.
StartDisks ==
  { d \in DiskStates : Cardinality({ k \in NKeys : d[k] # Absent }) <= MaxForeign }

(***************************************************************************)
(* Source trees: the content of each file of the tree (0: no such file).   *)
(***************************************************************************)
TreeOk(t) ==
  \A k \in DOMAIN t : \A q \in DOMAIN t :
     (t[k] # 0 /\ t[q] # 0 /\ k # q) => ~IsPrefix(k, q)

Trees == { t \in [NKeys -> 0..NumContents] : TreeOk(t) }

TreeFiles(t) == { k \in DOMAIN t : t[k] # 0 }

NoSrc == <<[k \in NKeys |-> 0], <<>>>>

SrcContent(src) == src[1][src[2]]

(***************************************************************************)
(* LastUpdatedOrderedDict: a sequence of <<key, value>> pairs.             *)
(***************************************************************************)
OpNone == <<"none", NoSrc>>
OpDir == <<"dir", NoSrc>>
OpFile(src) == <<"file", src>>

HasKey(ch, key) == \E i \in 1..Len(ch) : ch[i][1] = key

GetItem(ch, key) == ch[CHOOSE i \in 1..Len(ch) : ch[i][1] = key][2]

DelItem(ch, key) == SelectSeq(ch, LAMBDA e : e[1] # key)

SetItemAtEnd(ch, key, v) == Append(DelItem(ch, key), <<key, v>>)

\* dict.__setitem__ of a plain dict: an existing key keeps its position.
DictSet(ch, key, v) ==
  IF HasKey(ch, key)
  THEN [i \in 1..Len(ch) |-> IF ch[i][1] = key THEN <<key, v>> ELSE ch[i]]
  ELSE Append(ch, <<key, v>>)

\* Mutant: an existing key keeps its position, as in a plain dict.
SetItem_KeepsPlace(ch, key, v) == DictSet(ch, key, v)

SetItem(ch, key, v) == SetItemAtEnd(ch, key, v)

Keys(ch) == { ch[i][1] : i \in 1..Len(ch) }

(***************************************************************************)
(* InstallSimulator: the queries.  d is the real disk, ch the changes.     *)
(***************************************************************************)
exists(d, ch, path) ==
  LET key == normpath(path) IN
  IF HasKey(ch, key) THEN GetItem(ch, key) # OpNone
  ELSE RealExists(d, key)

\* Mutant: a pending Remove is passed over and the disk answers.
isdir_RemoveIgnored(d, ch, path) ==
  LET key == normpath(path) IN
  IF HasKey(ch, key) /\ GetItem(ch, key) # OpNone
  THEN GetItem(ch, key)[1] = "dir"
  ELSE RealIsDir(d, key)

isdir(d, ch, path) ==
  LET key == normpath(path) IN
  IF HasKey(ch, key) THEN GetItem(ch, key)[1] = "dir"
  ELSE RealIsDir(d, key)

isfile(d, ch, path) ==
  LET key == normpath(path) IN
  IF HasKey(ch, key) THEN GetItem(ch, key)[1] = "file"
  ELSE RealIsFile(d, key)

\* The second loop of listdir: the pending entries below key, in the order
\* of the changes.  No normalized key starts with "./", so nothing is
\* below the root's key ".".
RECURSIVE ListPending(_, _, _, _)
ListPending(ch, i, key, leaves) ==
  IF i > Len(ch) THEN leaves
  ELSE LET k == ch[i][1]
           kleaf == SubSeq(k, Len(key) + 1, Len(k))
           isleaf == /\ ch[i][2] # OpNone
                     /\ key # Root
                     /\ Len(k) > Len(key) /\ IsPrefix(key, k)
                     /\ Len(kleaf) = 1
                     /\ \A j \in 1..Len(leaves) : leaves[j] # kleaf
       IN ListPending(ch, i + 1, key,
                      IF isleaf THEN Append(leaves, kleaf) ELSE leaves)

\* Mutant: the real children are listed whatever the overlay says of them.
listdir_RealOnly(d, ch, path) ==
  LET key == normpath(path)
      n == IF RealIsDir(d, key)
           THEN Cardinality(RealChildren(d, key))
           ELSE 0
  IN ListPending(ch, 1, key, [j \in 1..n |-> key])

\* listdir appends key (not the leaf) once for every real child that still
\* exists under the overlay, then the leaves of the pending entries.
listdir(d, ch, path) ==
  LET key == normpath(path)
      n == IF RealIsDir(d, key)
           THEN Cardinality({ c \in RealChildren(d, key) : exists(d, ch, c) })
           ELSE 0
  IN ListPending(ch, 1, key, [j \in 1..n |-> key])

\* filecmp.cmp(src, b): b is the pending source when a file is pending (and
\* the overlay is not ignored), the real path otherwise.
same_file(d, ch, src, dst, real_only) ==
  LET key == normpath(dst) IN
  IF ~real_only /\ HasKey(ch, key)
  THEN /\ GetItem(ch, key)[1] = "file"
       /\ SrcContent(GetItem(ch, key)[2]) = SrcContent(src)
  ELSE RealEntry(d, dst) = FileEntry(SrcContent(src))

(***************************************************************************)
(* InstallSimulator: the planning primitives.  Each returns the changes    *)
(* and whether it raised.                                                  *)
(***************************************************************************)
Ok(ch) == [changes |-> ch, err |-> FALSE]
Raise(ch) == [changes |-> ch, err |-> TRUE]

\* Mutant: no early return for a path that is already a directory.
makedir_NoEarlyReturn(d, ch, dst) ==
  LET key == normpath(dst) IN
  IF exists(d, ch, dst) /\ ~isdir(d, ch, dst) THEN Raise(ch)
  ELSE IF RealIsDir(d, dst) THEN Ok(DelItem(SetItem(ch, key, OpDir), key))
  ELSE Ok(SetItem(ch, key, OpDir))

makedir(d, ch, dst) ==
  LET key == normpath(dst) IN
  IF isdir(d, ch, dst) THEN Ok(ch)
  ELSE IF exists(d, ch, dst) THEN Raise(ch)
  ELSE IF RealIsDir(d, dst) THEN Ok(DelItem(SetItem(ch, key, OpDir), key))
  ELSE Ok(SetItem(ch, key, OpDir))

RECURSIVE makedirs(_, _, _)
makedirs(d, ch, dst) ==
  LET head == Parent(dst)
      r == IF head # <<>> THEN makedirs(d, ch, head) ELSE Ok(ch)
  IN IF r.err THEN r ELSE makedir(d, r.changes, dst)

\* Mutant: the queued Remove is kept when nothing is there for real.
rmdir_KeepNoOp(d, ch, dst) ==
  LET key == normpath(dst) IN
  IF ~exists(d, ch, dst) THEN Ok(ch)
  ELSE IF ~isdir(d, ch, dst) THEN Raise(ch)
  ELSE IF listdir(d, ch, dst) # <<>> THEN Raise(ch)
  ELSE Ok(SetItem(ch, key, OpNone))

rmdir(d, ch, dst) ==
  LET key == normpath(dst) IN
  IF ~exists(d, ch, dst) THEN Ok(ch)
  ELSE IF ~isdir(d, ch, dst) THEN Raise(ch)
  ELSE IF listdir(d, ch, dst) # <<>> THEN Raise(ch)
  ELSE IF ~RealExists(d, dst) THEN Ok(DelItem(SetItem(ch, key, OpNone), key))
  ELSE Ok(SetItem(ch, key, OpNone))

\* Mutant: the queued CreateFile is kept when the real file is already
\* identical.
install_file_KeepNoOp(d, ch, src, dst) ==
  LET head == Parent(dst)
      key == normpath(dst)
      r == IF head # <<>> THEN makedirs(d, ch, head) ELSE Ok(ch)
      c1 == r.changes
  IN IF r.err THEN r
     ELSE IF isdir(d, c1, dst) THEN Raise(c1)
     ELSE IF same_file(d, c1, src, dst, FALSE) THEN Ok(c1)
     ELSE Ok(SetItem(c1, key, OpFile(src)))

install_file(d, ch, src, dst) ==
  LET head == Parent(dst)
      key == normpath(dst)
      r == IF head # <<>> THEN makedirs(d, ch, head) ELSE Ok(ch)
      c1 == r.changes
  IN IF r.err THEN r
     ELSE IF isdir(d, c1, dst) THEN Raise(c1)
     ELSE IF same_file(d, c1, src, dst, FALSE) THEN Ok(c1)
     ELSE LET c2 == SetItem(c1, key, OpFile(src)) IN
          IF same_file(d, c2, src, dst, TRUE) THEN Ok(DelItem(c2, key))
          ELSE Ok(c2)

remove_file(d, ch, dst) ==
  LET key == normpath(dst) IN
  IF ~exists(d, ch, dst) THEN Ok(ch)
  ELSE IF ~isfile(d, ch, dst) THEN Raise(ch)
  ELSE IF ~RealExists(d, dst) THEN Ok(DelItem(SetItem(ch, key, OpNone), key))
  ELSE Ok(SetItem(ch, key, OpNone))

\* install_tree over the files of tree in the order os.walk yields them
\* (walk: a sequence of leaves), each installed at dst joined with its leaf.
RECURSIVE InstallWalk(_, _, _, _, _, _)
InstallWalk(d, ch, tree, walk, dst, i) ==
  IF i > Len(walk) THEN Ok(ch)
  ELSE LET r == install_file(d, ch, <<tree, walk[i]>>, dst \o walk[i]) IN
       IF r.err THEN r ELSE InstallWalk(d, r.changes, tree, walk, dst, i + 1)

\* The orders os.walk can yield the files of a tree in: top-down, the files
\* of a directory before those of its subdirectories, and the order within
\* one directory is the file system's.
Walks(tree) ==
  LET F == TreeFiles(tree) IN
  { w \in [1..Cardinality(F) -> F] :
      /\ \A i, j \in DOMAIN w : i # j => w[i] # w[j]
      /\ \A i, j \in DOMAIN w :
           (i < j) => ~(/\ IsPrefix(Parent(w[j]), Parent(w[i]))
                        /\ Parent(w[j]) # Parent(w[i])) }

install_tree(d, ch, tree, walk, dst) == InstallWalk(d, ch, tree, walk, dst, 1)

(***************************************************************************)
(* Installer: the record (metafile) and the planning of an uninstall.      *)
(* A record's files are a sequence of <<key, value>> pairs in the order of *)
(* the JSON object; a value is the fingerprint of a file or M_HASH_DIR.    *)
(***************************************************************************)
M_VERSION == 0

M_HASH_DIR == <<"dir", 0>>

hash(c) == <<"sha1", c>>

default_meta == [version |-> M_VERSION, files |-> <<>>]

\* The metafile on disk: absent, empty (truncated and not yet rewritten, so
\* not JSON) or the JSON of a record.
NoFile == [kind |-> "absent", version |-> M_VERSION, files |-> <<>>]
EmptyFile == [kind |-> "empty", version |-> M_VERSION, files |-> <<>>]
JsonFile(m) == [kind |-> "json", version |-> m.version, files |-> m.files]

\* Installer.__init__ dies on a metafile that is not the JSON of a record
\* or that has another version.
LoadDies(md) ==
  \/ md.kind = "empty"
  \/ md.kind = "json" /\ md.version # M_VERSION

LoadMeta(md) ==
  IF md.kind = "json" THEN [version |-> md.version, files |-> md.files]
  ELSE default_meta

\* Mutant: every recorded file that is a file on disk counts as unmodified.
Unmodified_NoHash(d, files) ==
  { files[i][1] : i \in { j \in 1..Len(files) :
       /\ files[j][2] # M_HASH_DIR
       /\ RealIsFile(d, files[j][1]) } }

\* The recorded files that are files on disk with the recorded fingerprint.
Unmodified(d, files) ==
  { files[i][1] : i \in { j \in 1..Len(files) :
       /\ files[j][2] # M_HASH_DIR
       /\ RealIsFile(d, files[j][1])
       /\ files[j][2] = hash(RealEntry(d, files[j][1])[2]) } }

NewInstaller(d, md) ==
  LET m == LoadMeta(md) IN
  [meta |-> m, unmodified |-> Unmodified(d, m.files), changes |-> <<>>]

NoInstaller == [meta |-> default_meta, unmodified |-> {}, changes |-> <<>>]

\* keys.sort(key=len, reverse=True): stable, longest first.
RECURSIVE InsertByLen(_, _)
InsertByLen(sorted, k) ==
  IF sorted = <<>> THEN <<k>>
  ELSE IF StrLen(sorted[Len(sorted)]) >= StrLen(k) THEN Append(sorted, k)
  ELSE Append(InsertByLen(SubSeq(sorted, 1, Len(sorted) - 1), k),
              sorted[Len(sorted)])

\* Mutant: the keys are left in the order of the record, not sorted.
SortByLen_Unsorted(keys) == keys

RECURSIVE SortByLen(_)
SortByLen(keys) ==
  IF keys = <<>> THEN <<>>
  ELSE InsertByLen(SortByLen(SubSeq(keys, 1, Len(keys) - 1)), keys[Len(keys)])

blacklist_keys == { normpath(k) : k \in BLACKLIST }

\* One iteration of the loop of Installer.uninstall, for the recorded key k
\* with the recorded value v.
UninstallKey(d, inst, ch, k, v) ==
  IF k \in blacklist_keys THEN ch
  ELSE IF v = M_HASH_DIR
  THEN IF isdir(d, ch, k) /\ listdir(d, ch, k) = <<>>
       THEN rmdir(d, ch, k).changes ELSE ch
  ELSE IF isfile(d, ch, k) /\ k \in inst.unmodified
       THEN remove_file(d, ch, k).changes ELSE ch

RECURSIVE UninstallLoop(_, _, _, _, _)
UninstallLoop(d, inst, ch, keys, i) ==
  IF i > Len(keys) THEN ch
  ELSE UninstallLoop(d, inst,
         UninstallKey(d, inst, ch, keys[i], GetItem(inst.meta.files, keys[i])),
         keys, i + 1)

uninstall(d, inst) ==
  LET files == inst.meta.files
      keys == SortByLen([i \in 1..Len(files) |-> files[i][1]])
  IN [inst EXCEPT !.changes = UninstallLoop(d, inst, inst.changes, keys, 1)]

(***************************************************************************)
(* Installer: labels, preview and the steps of commit.                     *)
(***************************************************************************)
sim_label(d, inst, k, v) ==
  IF v = OpNone
  THEN IF RealIsDir(d, k) THEN "rmdir" ELSE "delete"
  ELSE IF v[1] = "file"
  THEN IF RealIsFile(d, k) /\ k \notin inst.unmodified
       THEN "overwrite" ELSE "install"
  ELSE "mkdir"

\* The lines summarize prints: a label and a key for each change.
summarize(d, inst) ==
  [i \in 1..Len(inst.changes) |->
     <<sim_label(d, inst, inst.changes[i][1], inst.changes[i][2]), inst.changes[i][1]>>]

\* json.load of the metafile at the start of commit, or the default.
CommitData(md) == LoadMeta(md)

\* Python's dict equality: the order of the keys does not count.
MetaEqual(a, b) ==
  /\ a.version = b.version
  /\ { a.files[i] : i \in 1..Len(a.files) } = { b.files[i] : i \in 1..Len(b.files) }
  /\ Len(a.files) = Len(b.files)

\* Where shutil.copy2(src, fullk) writes: into fullk when it is a directory.
CopyTarget(d, k, src) ==
  IF RealIsDir(d, k) THEN k \o <<src[2][Len(src[2])]>> ELSE k

\* Whether applying the change <<k, v>> to the disk raises.
ApplyRaises(d, k, v) ==
  IF v = OpNone
  THEN RealIsDir(d, k) /\ RealChildren(d, k) # {}
  ELSE IF v[1] = "file"
  THEN \/ RealIsDir(d, k)
       \/ ~RealIsDir(d, Parent(k))
  ELSE RealExists(d, k) \/ ~RealIsDir(d, Parent(k))

\* The disk after the change <<k, v>> has been applied, as far as it gets.
ApplyDisk(d, k, v) ==
  IF v = OpNone
  THEN IF RealIsDir(d, k) /\ RealChildren(d, k) # {} THEN d
       ELSE IF RealExists(d, k) /\ k \in DOMAIN d
       THEN [d EXCEPT ![k] = Absent] ELSE d
  ELSE IF v[1] = "file"
  THEN LET t == CopyTarget(d, k, v[2]) IN
       IF t \in DOMAIN d /\ ~RealIsDir(d, t) /\ RealIsDir(d, Parent(t))
       THEN [d EXCEPT ![t] = FileEntry(SrcContent(v[2]))] ELSE d
  ELSE IF ~RealExists(d, k) /\ RealIsDir(d, Parent(k)) /\ k \in DOMAIN d
       THEN [d EXCEPT ![k] = DirEntry] ELSE d

\* The files written outside the modelled paths (copy2 into a directory).
ApplyStray(d, k, v) ==
  IF v # OpNone /\ v[1] = "file" /\ CopyTarget(d, k, v[2]) \notin DOMAIN d
  THEN {CopyTarget(d, k, v[2])} ELSE {}

\* The in-memory record after the change <<k, v>> has been applied; d1 is
\* the disk after it.
ApplyMeta(d1, m, k, v) ==
  IF v = OpNone
  THEN [m EXCEPT !.files = DelItem(m.files, k)]
  ELSE IF v[1] = "file"
  THEN [m EXCEPT !.files = DictSet(m.files, k, hash(RealEntry(d1, k)[2]))]
  ELSE [m EXCEPT !.files = DictSet(m.files, k, M_HASH_DIR)]

(***************************************************************************)
(* The runs of the tool on one target root.  A run constructs an           *)
(* Installer, plans (uninstall, then install_tree of the source trees),    *)
(* previews and commits; commit is a sequence of steps between which the   *)
(* process can be killed.                                                  *)
(***************************************************************************)
TreeSeqs == UNION { [1..n -> Trees] : n \in 1..MaxTrees }

Run(plan, res) == [plan |-> plan, res |-> res]

CurPlan == hist[Len(hist)].plan

EndRun(res) == [hist EXCEPT ![Len(hist)].res = res]

AddCall(c) == [hist EXCEPT ![Len(hist)].plan = Append(@, c)]

NumInstalls(plan) == Cardinality({ i \in 1..Len(plan) : plan[i][1] = "install_tree" })

NumCrashes == Cardinality({ i \in 1..Len(hist) : hist[i].res = "crashed" })

\* No call made on a bare overlay; no parse started.
NoCalls == [n |-> 0, last |-> <<"none", <<>>, 0>>, before |-> <<>>,
            raised |-> FALSE, twice |-> FALSE, firstRaised |-> FALSE,
            listed |-> <<>>, trees |-> 0]

(***************************************************************************)
(* parse_vdf.  A character is a one-character string, a string a sequence  *)
(* of characters.  A parsed value is <<"str", s>> or <<"dict", pairs>>,    *)
(* a dict the sequence of its <<key, value>> pairs in insertion order.     *)
(***************************************************************************)
Quote == "\""

Backslash == "\\"

Newline == "\n"

\* What "\a" decodes to.
Bel == "BEL"

Chars == {Quote, "{", "}", " ", Newline, "a", Backslash}

isspace(c) == c \in {" ", Newline}

WAIT_KEY == 0

KEY == 1

WAIT_VALUE == 2

VALUE == 3

None == <<"None">>

BadString == [ok |-> FALSE, val |-> <<>>]

\* The value of the body of a string literal, as Python's tokenizer decodes
\* it: a raw newline is an error, a backslash at the end escapes the closing
\* quote (unterminated literal), "\\" is one backslash, backslash-quote a
\* quote, backslash-newline a line continuation, "\a" the bell, and an unknown escape is kept as is.
RECURSIVE Unescape(_)
Unescape(body) ==
  IF body = <<>> THEN [ok |-> TRUE, val |-> <<>>]
  ELSE IF Head(body) \in {Newline, Quote} THEN BadString
  ELSE IF Head(body) = Backslash THEN
    IF Len(body) = 1 THEN BadString
    ELSE LET n == body[2]
             rest == Unescape(SubSeq(body, 3, Len(body)))
             one == IF n = Backslash THEN <<Backslash>>
                    ELSE IF n = Quote THEN <<Quote>>
                    ELSE IF n = Newline THEN <<>>
                    ELSE IF n = "a" THEN <<Bel>>
                    ELSE <<Backslash, n>>
         IN IF rest.ok THEN [ok |-> TRUE, val |-> one \o rest.val] ELSE BadString
  ELSE LET rest == Unescape(Tail(body))
       IN IF rest.ok THEN [ok |-> TRUE, val |-> <<Head(body)>> \o rest.val]
          ELSE BadString

\* ast.literal_eval of the characters collected for a key or a value.
literal_eval(lit) ==
  IF Len(lit) < 2 \/ lit[1] # Quote \/ lit[Len(lit)] # Quote THEN BadString
  ELSE Unescape(SubSeq(lit, 2, Len(lit) - 1))

\* The locals of one call of parse_vdf.
NewFrame == [data |-> <<>>, state |-> WAIT_KEY, k |-> None, v |-> None]

\* LineColTracker.__next__: c is read from the stream.
Track(t, c) ==
  [t EXCEPT !.input = Append(t.input, c),
            !.line = IF c = Newline THEN t.line + 1 ELSE t.line,
            !.col = IF c = Newline THEN 0 ELSE t.col + 1]

Top(t) == t.frames[Len(t.frames)]

SetTop(t, f) == [t EXCEPT !.frames[Len(t.frames)] = f]

subvdf(t) == Len(t.frames) > 1

\* raise ParseError(stream, msg): no caller catches it inside parse_vdf.
ParseError(t, msg) == [t EXCEPT !.res = "ParseError", !.msg = msg, !.frames = <<>>]

\* "return data" of a nested call, and the caller's lines 241-246.
ReturnNested(t) ==
  LET n == Len(t.frames)
      caller == t.frames[n - 1]
      v == <<"dict", Top(t).data>>
  IN [t EXCEPT !.frames =
        Append(SubSeq(t.frames, 1, n - 2),
               [data |-> DictSet(caller.data, caller.k, v),
                state |-> WAIT_KEY, k |-> None, v |-> None])]

OnWaitKey(t, c) ==
  IF isspace(c) THEN t
  ELSE IF c = Quote THEN SetTop(t, [Top(t) EXCEPT !.k = <<c>>, !.state = KEY])
  ELSE IF c = "}" /\ subvdf(t) THEN ReturnNested(t)
  ELSE ParseError(t, "expected space or quote")

OnKey(t, c) ==
  LET k == Append(Top(t).k, c) IN
  IF c = Quote /\ k[Len(k)] # Backslash THEN
    LET r == literal_eval(k) IN
    IF r.ok THEN SetTop(t, [Top(t) EXCEPT !.state = WAIT_VALUE, !.k = r.val])
    ELSE ParseError(t, "bad string")
  ELSE SetTop(t, [Top(t) EXCEPT !.k = k])

\* Mutant: the nested parse starts with the caller's mapping.
OnWaitValue_SharedData(t, c) ==
  IF isspace(c) THEN t
  ELSE IF c = Quote THEN SetTop(t, [Top(t) EXCEPT !.v = <<c>>, !.state = VALUE])
  ELSE IF c = "{" THEN
    [t EXCEPT !.frames = Append(t.frames, [NewFrame EXCEPT !.data = Top(t).data])]
  ELSE ParseError(t, "expected space or quote")

OnWaitValue(t, c) ==
  IF isspace(c) THEN t
  ELSE IF c = Quote THEN SetTop(t, [Top(t) EXCEPT !.v = <<c>>, !.state = VALUE])
  ELSE IF c = "{" THEN [t EXCEPT !.frames = Append(t.frames, NewFrame)]
  ELSE ParseError(t, "expected space or quote")

OnValue(t, c) ==
  LET v == Append(Top(t).v, c) IN
  IF c = Quote /\ v[Len(v)] # Backslash THEN
    LET r == literal_eval(v) IN
    IF r.ok
    THEN SetTop(t, [data |-> DictSet(Top(t).data, Top(t).k, <<"str", r.val>>),
                    state |-> WAIT_KEY, k |-> None, v |-> None])
    ELSE ParseError(t, "bad string")
  ELSE SetTop(t, [Top(t) EXCEPT !.v = v])

\* Mutant: the state is looked at before subvdf.
EndOfStream_StateFirst(t) ==
  IF Top(t).state # WAIT_KEY
  THEN ParseError(t, "end of file inside key/value pair")
  ELSE IF subvdf(t) THEN ParseError(t, "end of file inside braces")
  ELSE [t EXCEPT !.res = "returned", !.data = Top(t).data, !.frames = <<>>]

\* The for loop is over: lines 264-269 of the innermost call.
EndOfStream(t) ==
  IF subvdf(t) THEN ParseError(t, "end of file inside braces")
  ELSE IF Top(t).state # WAIT_KEY
  THEN ParseError(t, "end of file inside key/value pair")
  ELSE [t EXCEPT !.res = "returned", !.data = Top(t).data, !.frames = <<>>]

\* parse_vdf was called on a stream of which nothing has been read yet.
NoVdf == [input |-> <<>>, line |-> 1, col |-> -1, frames |-> <<NewFrame>>,
          res |-> "none", msg |-> "", data |-> <<>>]

CommitPcs == {"opened", "truncated", "loop", "applied", "closed"}

Init ==
  /\ disk \in StartDisks
  /\ stray = {}
  /\ metaDisk = NoFile
  /\ sources \in TreeSeqs
  /\ ins = NoInstaller
  /\ pc = "idle"
  /\ idx = 0
  /\ preview = <<>>
  /\ out = <<>>
  /\ hist = <<>>
  /\ disk0 = disk
  /\ rec0 = metaDisk
  /\ recStart = NoFile
  /\ edited = {}
  /\ calls = NoCalls
  /\ vdf = NoVdf

\* Installer(root): load the record; die on a bad one.
Construct ==
  /\ pc = "idle"
  /\ Len(hist) < MaxRuns
  /\ preview' = <<>>
  /\ out' = <<>>
  /\ idx' = 0
  /\ IF LoadDies(metaDisk)
     THEN /\ hist' = Append(hist, Run(<<>>, "died"))
          /\ UNCHANGED <<ins, pc>>
     ELSE /\ hist' = Append(hist, Run(<<>>, "running"))
          /\ ins' = NewInstaller(disk, metaDisk)
          /\ pc' = "plan"
  /\ recStart' = metaDisk
  /\ UNCHANGED <<disk, stray, metaDisk, sources, disk0, edited>>
  /\ UNCHANGED aux

\* Installer.uninstall, the first planning call of a run.
PlanUninstall ==
  /\ pc = "plan"
  /\ CurPlan = <<>>
  /\ ins' = uninstall(disk, ins)
  /\ hist' = AddCall(<<"uninstall", 0>>)
  /\ UNCHANGED <<disk, stray, metaDisk, sources, pc, idx, preview, out, disk0, recStart, edited>>
  /\ UNCHANGED aux

\* Installer.install_tree of the next source tree; the run ends if it raises.
PlanInstallTree ==
  /\ pc = "plan"
  /\ NumInstalls(CurPlan) < Len(sources)
  /\ LET i == NumInstalls(CurPlan) + 1 IN
     \E walk \in Walks(sources[i]) :
       LET r == install_tree(disk, ins.changes, sources[i], walk, Root) IN
       IF r.err
       THEN /\ pc' = "idle"
            /\ ins' = NoInstaller
            /\ hist' = [AddCall(<<"install_tree", i>>) EXCEPT ![Len(hist)].res = "raised"]
       ELSE /\ pc' = "plan"
            /\ ins' = [ins EXCEPT !.changes = r.changes]
            /\ hist' = AddCall(<<"install_tree", i>>)
  /\ UNCHANGED <<disk, stray, metaDisk, sources, idx, preview, out, disk0, recStart, edited>>
  /\ UNCHANGED aux

\* Installer.summarize.
Summarize ==
  /\ pc = "plan"
  /\ preview' = summarize(disk, ins)
  /\ pc' = "previewed"
  /\ UNCHANGED <<disk, stray, metaDisk, sources, ins, idx, out, hist, disk0, recStart, edited>>
  /\ UNCHANGED aux

\* commit: open(metapath, 'a+') creates the metafile if there is none.
CommitOpen ==
  /\ pc = "previewed"
  /\ metaDisk' = IF metaDisk.kind = "absent" THEN EmptyFile ELSE metaDisk
  /\ pc' = "opened"
  /\ UNCHANGED <<disk, stray, sources, ins, idx, preview, out, hist, disk0, recStart, edited>>
  /\ UNCHANGED aux

\* commit: compare the metafile with the record loaded at construction,
\* die if they differ, truncate the metafile otherwise.
CommitCheck ==
  /\ pc = "opened"
  /\ IF MetaEqual(CommitData(metaDisk), ins.meta)
     THEN /\ metaDisk' = EmptyFile
          /\ pc' = "truncated"
          /\ UNCHANGED <<ins, hist>>
     ELSE /\ pc' = "idle"
          /\ ins' = NoInstaller
          /\ hist' = EndRun("died")
          /\ UNCHANGED metaDisk
  /\ UNCHANGED <<disk, stray, sources, idx, preview, out, disk0, recStart, edited>>
  /\ UNCHANGED aux

\* commit: json.dump and flush after a truncate, before the loop and at the
\* end of each of its iterations.
CommitDump ==
  /\ pc = "truncated"
  /\ metaDisk' = JsonFile(ins.meta)
  /\ idx' = idx + 1
  /\ pc' = "loop"
  /\ UNCHANGED <<disk, stray, sources, ins, preview, out, hist, disk0, recStart, edited>>
  /\ UNCHANGED aux

\* commit: print the label of the next change and apply it to the disk and
\* to the in-memory record; an exception ends the run.
CommitApply ==
  /\ pc = "loop"
  /\ idx <= Len(ins.changes)
  /\ LET k == ins.changes[idx][1]
         v == ins.changes[idx][2]
         d1 == ApplyDisk(disk, k, v)
     IN /\ out' = Append(out, <<sim_label(disk, ins, k, v), k>>)
        /\ disk' = d1
        /\ stray' = stray \cup ApplyStray(disk, k, v)
        /\ IF ApplyRaises(disk, k, v)
           THEN /\ pc' = "idle"
                /\ ins' = NoInstaller
                /\ hist' = EndRun("raised")
           ELSE /\ pc' = "applied"
                /\ ins' = [ins EXCEPT !.meta = ApplyMeta(d1, ins.meta, k, v)]
                /\ UNCHANGED hist
  /\ UNCHANGED <<metaDisk, sources, idx, preview, disk0, recStart, edited>>
  /\ UNCHANGED aux

\* commit: metafile.truncate(0) at the end of an iteration.
CommitTruncate ==
  /\ pc = "applied"
  /\ metaDisk' = EmptyFile
  /\ pc' = "truncated"
  /\ UNCHANGED <<disk, stray, sources, ins, idx, preview, out, hist, disk0, recStart, edited>>
  /\ UNCHANGED aux

\* commit: the loop is over, the metafile is closed and the changes reset.
CommitClose ==
  /\ pc = "loop"
  /\ idx > Len(ins.changes)
  /\ ins' = [ins EXCEPT !.changes = <<>>]
  /\ pc' = "closed"
  /\ UNCHANGED <<disk, stray, metaDisk, sources, idx, preview, out, hist, disk0, recStart, edited>>
  /\ UNCHANGED aux

\* commit: remove the metafile when the record lists nothing.
\* Mutant: the metafile is left in place whatever the record lists.
CommitRemove_KeepsFile ==
  /\ pc = "closed"
  /\ pc' = "idle"
  /\ ins' = NoInstaller
  /\ hist' = EndRun("done")
  /\ UNCHANGED <<disk, stray, metaDisk, sources, idx, preview, out, disk0, recStart, edited>>
  /\ UNCHANGED aux

CommitRemove ==
  /\ pc = "closed"
  /\ metaDisk' = IF ins.meta.files = <<>> THEN NoFile ELSE metaDisk
  /\ pc' = "idle"
  /\ ins' = NoInstaller
  /\ hist' = EndRun("done")
  /\ UNCHANGED <<disk, stray, sources, idx, preview, out, disk0, recStart, edited>>
  /\ UNCHANGED aux

\* The process is killed between two steps of commit (in a run that
\* another run can follow).
Crash ==
  /\ pc \in CommitPcs
  /\ NumCrashes < MaxCrashes
  /\ Len(hist) < MaxRuns
  /\ pc' = "idle"
  /\ ins' = NoInstaller
  /\ hist' = EndRun("crashed")
  /\ UNCHANGED <<disk, stray, metaDisk, sources, idx, preview, out, disk0, recStart, edited>>
  /\ UNCHANGED aux

\* Between two runs a user changes the content of a file of the root.
EditFile ==
  /\ pc = "idle"
  /\ hist # <<>>
  /\ Len(hist) < MaxRuns
  /\ Cardinality(edited) < MaxEdits
  /\ \E k \in NKeys : \E c \in Contents :
       /\ \A e \in edited : e[1] # k
       /\ RealIsFile(disk, k)
       /\ disk[k] # FileEntry(c)
       /\ disk' = [disk EXCEPT ![k] = FileEntry(c)]
       /\ edited' = edited \cup {<<k, c>>}
  /\ UNCHANGED <<stray, metaDisk, sources, ins, pc, idx, preview, out, hist, disk0, recStart>>
  /\ UNCHANGED aux

Next ==
  \/ Construct
  \/ PlanUninstall
  \/ PlanInstallTree
  \/ Summarize
  \/ CommitOpen
  \/ CommitCheck
  \/ CommitDump
  \/ CommitApply
  \/ CommitTruncate
  \/ CommitClose
  \/ CommitRemove
  \/ Crash
  \/ EditFile

Spec == Init /\ [][Next]_vars

(***************************************************************************)
(* The runs a claim speaks of.                                             *)
(***************************************************************************)
\* A deploy that was planned (with or without an uninstall first) from all
\* the source trees and committed to the end.
DeployRun(r) == r.res = "done" /\ NumInstalls(r.plan) = Len(sources)

\* An undo: uninstall alone, committed to the end.
UndoRun(r) == r.res = "done" /\ r.plan = << <<"uninstall", 0>> >>

\* No source tree holds a file at a protected path.
NoProtectedSource ==
  \A i \in 1..Len(sources) : TreeFiles(sources[i]) \cap blacklist_keys = {}

DeployThenUndo ==
  /\ pc = "idle"
  /\ Len(hist) = 2
  /\ DeployRun(hist[1])
  /\ UndoRun(hist[2])

RootIsEmpty == disk = EmptyDisk /\ stray = {} /\ metaDisk = NoFile

InstalledContent(k) ==
  LET I == { i \in 1..Len(sources) : sources[i][k] # 0 } IN
  IF I = {} THEN 0 ELSE sources[CHOOSE i \in I : \A j \in I : j <= i][k]

\* Some path other than F holds X now and did not at the start.
HasBackup(F, X) ==
  \/ stray # {}
  \/ \E b \in NKeys \ {F} : disk[b] = FileEntry(X) /\ disk0[b] # FileEntry(X)

C2_BackupRestore ==
  \A F \in NKeys :
    ( /\ disk0[F][1] = "file"
      /\ InstalledContent(F) \notin {0, disk0[F][2]}
      /\ edited = {} /\ pc = "idle"
      /\ hist # <<>> /\ DeployRun(hist[1]) )
    => /\ Len(hist) = 1 =>
            disk[F] = FileEntry(InstalledContent(F)) /\ HasBackup(F, disk0[F][2])
       /\ DeployThenUndo =>
            disk[F] = disk0[F] /\ ~HasBackup(F, disk0[F][2])

(***************************************************************************)
(* C3.  Modified-file protection.                                          *)
(***************************************************************************)
\* The files a record lists (the keys whose value is a fingerprint).
RecordedFiles(md) ==
  { md.files[i][1] : i \in { j \in 1..Len(md.files) : md.files[j][2] # M_HASH_DIR } }

\* The second run is an uninstall, planned by a fresh Installer after a
\* committed deploy and one change, by a user, of the content of the
\* installed file k to c.
UndoAfterEdit(k, c) ==
  /\ Len(hist) = 2
  /\ DeployRun(hist[1])
  /\ hist[2].plan = << <<"uninstall", 0>> >>
  /\ hist[2].res = "running"
  /\ edited = {<<k, c>>}
  /\ k \in RecordedFiles(recStart)

(***************************************************************************)
(* C3 (as stated).  After a committed deploy and a change of the content   *)
(* of one installed file, the uninstall plans no operation for that file   *)
(* and leaves it in place with its changed content, and every other        *)
(* installed file whose content still matches the record is removed.       *)
(***************************************************************************)
C3_ModifiedKeptOthersRemoved ==
  \A k \in NKeys : \A c \in Contents :
    UndoAfterEdit(k, c) =>
      /\ ~HasKey(ins.changes, k)
      /\ disk[k] = FileEntry(c)
      /\ pc = "closed" =>
           \A q \in RecordedFiles(recStart) \ {k} : disk[q] = Absent

(***************************************************************************)
(* C3 (amended).  As C3, the files removed being every other installed     *)
(* file that still matches the record and is not on the protected list.    *)
(***************************************************************************)
C3_ModifiedKept ==
  \A k \in NKeys : \A c \in Contents :
    UndoAfterEdit(k, c) =>
      /\ ~HasKey(ins.changes, k)
      /\ disk[k] = FileEntry(c)
      /\ pc = "closed" =>
           \A q \in (RecordedFiles(recStart) \ {k}) \ blacklist_keys :
              disk[q] = Absent

\* The changed file is unprotected and stays; another installed file is
\* removed by the same uninstall.
C3_Witness ==
  \E k \in NKeys \ blacklist_keys : \E c \in Contents :
    /\ UndoAfterEdit(k, c)
    /\ pc = "closed"
    /\ disk[k] = FileEntry(c)
    /\ \E q \in (RecordedFiles(recStart) \ {k}) \ blacklist_keys :
          disk[q] = Absent

(***************************************************************************)
(* C4.  Crash resumability: after commit is interrupted at any point, the  *)
(* next run loads the record without error, and its uninstall reverses     *)
(* what the interrupted commit had applied: nothing the interrupted commit *)
(* created remains and nothing it had not touched is affected.             *)
(***************************************************************************)
C4_CrashResumable ==
  /\ \A i \in 1..Len(hist) - 1 :
        hist[i].res = "crashed" => hist[i + 1].res # "died"
  /\ ( /\ Len(hist) = 2 /\ pc = "idle"
       /\ hist[1].res = "crashed"
       /\ UndoRun(hist[2]) )
     => \A k \in NKeys : disk0[k] = Absent => disk[k] = Absent

(***************************************************************************)
(* C8.  After a committed deploy with nothing changed on disk since, a     *)
(* second run that plans uninstall and then install_tree of the same       *)
(* source trees ends with no pending operation at all: every Remove the    *)
(* uninstall queued, for files and for directories, is dropped again.      *)
(***************************************************************************)
\* The second run, after a committed deploy: uninstall was planned first.
Redeploy ==
  /\ Len(hist) = 2
  /\ DeployRun(hist[1])
  /\ edited = {}
  /\ hist[2].plan # <<>>
  /\ hist[2].plan[1][1] = "uninstall"

C8_RedeployIsNoOp ==
  Redeploy =>
    /\ hist[2].res # "raised"
    /\ (pc = "plan" /\ NumInstalls(hist[2].plan) = Len(sources)) =>
          ins.changes = <<>>

\* The record listed two directories and a file; all their Removes were
\* queued by the uninstall and dropped by the install_tree.
C8_Witness ==
  /\ Redeploy
  /\ pc = "plan"
  /\ NumInstalls(hist[2].plan) = Len(sources)
  /\ ins.changes = <<>>
  /\ { recStart.files[i] : i \in 1..Len(recStart.files) } =
       { << <<"bin">>, M_HASH_DIR >>, << <<"bin", "x">>, M_HASH_DIR >>,
         << <<"bin", "x", "x">>, hash(1) >> }

(***************************************************************************)
(* One run on a root that earlier runs (of any version of the sources, or  *)
(* anything else that writes the metafile) left with any record: the keys  *)
(* of a record need not be normalized.                                     *)
(***************************************************************************)
RawKeys == NKeys \cup { <<".", "bin", "bink2w64.dll">> }

RecordValues == {M_HASH_DIR} \cup { hash(c) : c \in Contents }

RecordFiles ==
  { f \in UNION { [1..n -> RawKeys \X RecordValues] : n \in 0..MaxRecord } :
      \A i, j \in DOMAIN f : i # j => f[i][1] # f[j][1] }

InitAny ==
  /\ disk \in StartDisks
  /\ stray = {}
  /\ metaDisk \in { JsonFile([version |-> M_VERSION, files |-> f]) : f \in RecordFiles }
  /\ sources \in TreeSeqs
  /\ ins = NoInstaller
  /\ pc = "idle"
  /\ idx = 0
  /\ preview = <<>>
  /\ out = <<>>
  /\ hist = << Run(<<>>, "past") >>
  /\ disk0 = disk
  /\ rec0 = metaDisk
  /\ recStart = NoFile
  /\ edited = {}
  /\ calls = NoCalls
  /\ vdf = NoVdf

NextAny ==
  \/ Construct
  \/ PlanUninstall
  \/ PlanInstallTree
  \/ Summarize
  \/ CommitOpen
  \/ CommitCheck
  \/ CommitDump
  \/ CommitApply
  \/ CommitTruncate
  \/ CommitClose
  \/ CommitRemove

SpecAny == InitAny /\ [][NextAny]_vars

(***************************************************************************)
(* C5.  Preview/commit equivalence: the lines summarize printed are, in    *)
(* order and content, the lines commit printed for the operations it       *)
(* applied, once commit is over.                                           *)
(***************************************************************************)
C5_PreviewEqualsCommit ==
  (pc = "idle" /\ hist # <<>> /\ hist[Len(hist)].res \in {"done", "raised"})
     => out = preview

(***************************************************************************)
(* C7.  A protected path is never deleted: no plan holds a Remove entry    *)
(* for a path of the protected list, whatever the record and the disk, and *)
(* no commit deletes a protected path.                                     *)
(***************************************************************************)
C7_ProtectedNeverRemoved ==
  /\ \A i \in 1..Len(ins.changes) :
        ins.changes[i][2] = OpNone => ins.changes[i][1] \notin blacklist_keys
  /\ \A k \in blacklist_keys \cap NKeys :
        (disk0[k] # Absent /\ edited = {}) => disk[k] # Absent

(***************************************************************************)
(* A bare InstallSimulator on an unchanging disk: any planning primitive   *)
(* is called with any argument, one call after another.                    *)
(***************************************************************************)
\* The source file with content c whose leaf is dst.
SrcFor(dst, c) == << [k \in NKeys |-> IF k = dst THEN c ELSE 0], dst >>

\* The overlay after the call; c is the content of the source of an
\* install_file and 0 for the other primitives.
AfterCall(name, dst, c, r) ==
  /\ ins' = [ins EXCEPT !.changes = r.changes]
  /\ calls' = [n |-> calls.n + 1,
               last |-> <<name, dst, c>>,
               before |-> ins.changes,
               raised |-> r.err,
               twice |-> calls.last = <<name, dst, c>>,
               firstRaised |-> calls.raised,
               listed |-> <<>>,
               trees |-> calls.trees]

otherOverlay == <<disk, stray, metaDisk, sources, pc, idx, preview, out, hist,
                  disk0, rec0, recStart, edited, vdf>>

CallMakedir ==
  /\ calls.n < MaxCalls
  /\ \E dst \in NKeys :
       AfterCall("makedir", dst, 0, makedir(disk, ins.changes, dst))
  /\ UNCHANGED otherOverlay

CallMakedirs ==
  /\ calls.n < MaxCalls
  /\ \E dst \in NKeys :
       AfterCall("makedirs", dst, 0, makedirs(disk, ins.changes, dst))
  /\ UNCHANGED otherOverlay

CallRmdir ==
  /\ calls.n < MaxCalls
  /\ \E dst \in NKeys :
       AfterCall("rmdir", dst, 0, rmdir(disk, ins.changes, dst))
  /\ UNCHANGED otherOverlay

CallInstallFile ==
  /\ calls.n < MaxCalls
  /\ \E dst \in NKeys : \E c \in Contents :
       AfterCall("install_file", dst, c,
                 install_file(disk, ins.changes, SrcFor(dst, c), dst))
  /\ UNCHANGED otherOverlay

CallRemoveFile ==
  /\ calls.n < MaxCalls
  /\ \E dst \in NKeys :
       AfterCall("remove_file", dst, 0, remove_file(disk, ins.changes, dst))
  /\ UNCHANGED otherOverlay

\* listdir of any path, the root included: a query, the overlay stays.
CallListdir ==
  /\ calls.n < MaxCalls
  /\ \E dst \in NKeys \cup {Root} :
       calls' = [n |-> calls.n + 1,
                 last |-> <<"listdir", dst, 0>>,
                 before |-> ins.changes,
                 raised |-> FALSE,
                 twice |-> FALSE,
                 firstRaised |-> calls.raised,
                 listed |-> listdir(disk, ins.changes, dst),
                 trees |-> calls.trees]
  /\ UNCHANGED ins
  /\ UNCHANGED otherOverlay

\* install_tree of any source tree onto the root, in any order os.walk
\* can yield its files; what it queued before raising stays queued.  At
\* most MaxTrees of the calls are an install_tree.
CallInstallTree ==
  /\ calls.n < MaxCalls
  /\ calls.trees < MaxTrees
  /\ \E tree \in Trees : \E walk \in Walks(tree) :
       LET r == install_tree(disk, ins.changes, tree, walk, Root) IN
       /\ ins' = [ins EXCEPT !.changes = r.changes]
       /\ calls' = [n |-> calls.n + 1,
                    last |-> <<"install_tree", Root, 0>>,
                    before |-> ins.changes,
                    raised |-> r.err,
                    twice |-> FALSE,
                    firstRaised |-> calls.raised,
                    listed |-> <<>>,
                    trees |-> calls.trees + 1]
  /\ UNCHANGED otherOverlay

InitOverlay ==
  /\ disk \in StartDisks
  /\ stray = {}
  /\ metaDisk = NoFile
  /\ sources = <<>>
  /\ ins = NoInstaller
  /\ pc = "overlay"
  /\ idx = 0
  /\ preview = <<>>
  /\ out = <<>>
  /\ hist = <<>>
  /\ disk0 = disk
  /\ rec0 = metaDisk
  /\ recStart = NoFile
  /\ edited = {}
  /\ calls = NoCalls
  /\ vdf = NoVdf

NextOverlay ==
  \/ CallMakedir
  \/ CallMakedirs
  \/ CallRmdir
  \/ CallInstallFile
  \/ CallRemoveFile
  \/ CallListdir
  \/ CallInstallTree

SpecOverlay == InitOverlay /\ [][NextOverlay]_vars

(***************************************************************************)
(* C6.  Idempotence of planning: a second call of makedir, makedirs,       *)
(* rmdir, install_file or remove_file with the same arguments, right after *)
(* a first call that did not raise, leaves the pending-operation sequence  *)
(* exactly as the first call left it (same entries, same order).           *)
(***************************************************************************)
C6_SecondCallChangesNothing ==
  (calls.twice /\ ~calls.firstRaised) => ins.changes = calls.before

\* An install_file was repeated on an overlay that holds its entry after
\* another one.
C6_Witness ==
  /\ calls.twice /\ ~calls.firstRaised /\ ~calls.raised
  /\ calls.last[1] = "install_file"
  /\ Len(ins.changes) = 2
  /\ ins.changes[2][1] = calls.last[2]

(***************************************************************************)
(* parse_vdf reading a stream one character at a time: the stream delivers *)
(* any character next, or ends.                                            *)
(***************************************************************************)
\* The number of whitespace characters the text s ends with.
RECURSIVE TrailingWs(_)
TrailingWs(s) ==
  IF s = <<>> \/ ~isspace(s[Len(s)]) THEN 0
  ELSE 1 + TrailingWs(SubSeq(s, 1, Len(s) - 1))

\* The characters the stream delivers inside a key or a value, and after a
\* backslash inside one.
StrChars == {Quote, "a", "}", Backslash, Newline}

EscChars == {Quote, Backslash, "a"}

\* The length of the body of a key or value, a backslash and the character
\* after it counting for one; esc: the body ends with a lone backslash.
RECURSIVE StrUnits(_)
StrUnits(body) ==
  IF body = <<>> THEN [n |-> 0, esc |-> FALSE]
  ELSE IF Head(body) # Backslash
  THEN [StrUnits(Tail(body)) EXCEPT !.n = @ + 1]
  ELSE IF Len(body) = 1 THEN [n |-> 0, esc |-> TRUE]
  ELSE [StrUnits(SubSeq(body, 3, Len(body))) EXCEPT !.n = @ + 1]

MayReadIn(raw, c) ==
  LET u == StrUnits(Tail(raw)) IN
  IF u.esc THEN c \in EscChars
  ELSE IF u.n >= MaxStr THEN c = Quote
  ELSE c \in StrChars

\* The bounds on the stream: its length, the length of a key or a value,
\* the length of a run of whitespace, the depth of the braces.
MayRead(c) ==
  LET f == Top(vdf) IN
  /\ Len(vdf.input) < MaxLen
  /\ (f.state \in {WAIT_KEY, WAIT_VALUE} /\ isspace(c))
        => TrailingWs(vdf.input) < MaxWs
  /\ f.state = KEY => MayReadIn(f.k, c)
  /\ f.state = VALUE => MayReadIn(f.v, c)
  /\ (f.state = WAIT_VALUE /\ c = "{") => Len(vdf.frames) < MaxDepth

otherVdf == <<disk, stray, metaDisk, sources, ins, pc, idx, preview, out,
              hist, disk0, rec0, recStart, edited, calls>>

Reading(state) == vdf.res = "none" /\ Top(vdf).state = state

ReadWaitKey ==
  /\ Reading(WAIT_KEY)
  /\ \E c \in Chars : MayRead(c) /\ vdf' = OnWaitKey(Track(vdf, c), c)
  /\ UNCHANGED otherVdf

ReadKey ==
  /\ Reading(KEY)
  /\ \E c \in Chars : MayRead(c) /\ vdf' = OnKey(Track(vdf, c), c)
  /\ UNCHANGED otherVdf

ReadWaitValue ==
  /\ Reading(WAIT_VALUE)
  /\ \E c \in Chars : MayRead(c) /\ vdf' = OnWaitValue(Track(vdf, c), c)
  /\ UNCHANGED otherVdf

ReadValue ==
  /\ Reading(VALUE)
  /\ \E c \in Chars : MayRead(c) /\ vdf' = OnValue(Track(vdf, c), c)
  /\ UNCHANGED otherVdf

StreamEnds ==
  /\ vdf.res = "none"
  /\ vdf' = EndOfStream(vdf)
  /\ UNCHANGED otherVdf

InitVdf ==
  /\ disk = EmptyDisk
  /\ stray = {}
  /\ metaDisk = NoFile
  /\ sources = <<>>
  /\ ins = NoInstaller
  /\ pc = "parse_vdf"
  /\ idx = 0
  /\ preview = <<>>
  /\ out = <<>>
  /\ hist = <<>>
  /\ disk0 = disk
  /\ rec0 = metaDisk
  /\ recStart = NoFile
  /\ edited = {}
  /\ calls = NoCalls
  /\ vdf = NoVdf

NextVdf ==
  \/ ReadWaitKey
  \/ ReadKey
  \/ ReadWaitValue
  \/ ReadValue
  \/ StreamEnds

SpecVdf == InitVdf /\ [][NextVdf]_vars

(***************************************************************************)
(* The mapping the grammar denotes, by recursive descent over the whole    *)
(* text: document ::= (key value)*, key ::= string, value ::= string or    *)
(* "{" document "}", whitespace between tokens.  A string here holds no    *)
(* backslash and no raw newline (escapes are not part of this grammar).    *)
(***************************************************************************)
RECURSIVE SkipWs(_, _)
SkipWs(s, i) == IF i <= Len(s) /\ isspace(s[i]) THEN SkipWs(s, i + 1) ELSE i

\* The place of the first quote at or after i; 0 if there is none.
RECURSIVE CloseQuote(_, _)
CloseQuote(s, i) ==
  IF i > Len(s) THEN 0 ELSE IF s[i] = Quote THEN i ELSE CloseQuote(s, i + 1)

Plain(body) == \A j \in 1..Len(body) : body[j] \notin {Backslash, Newline}

NotDoc == [ok |-> FALSE, map |-> <<>>, next |-> 0]

RECURSIVE Document(_, _, _, _)
Document(s, i, nested, acc) ==
  LET j == SkipWs(s, i) IN
  IF j > Len(s)
  THEN IF nested THEN NotDoc ELSE [ok |-> TRUE, map |-> acc, next |-> j]
  ELSE IF s[j] = "}"
  THEN IF nested THEN [ok |-> TRUE, map |-> acc, next |-> j + 1] ELSE NotDoc
  ELSE IF s[j] # Quote THEN NotDoc
  ELSE
    LET q == CloseQuote(s, j + 1) IN
    IF q = 0 THEN NotDoc
    ELSE
      LET key == SubSeq(s, j + 1, q - 1)
          m == SkipWs(s, q + 1)
      IN
      IF ~Plain(key) \/ m > Len(s) THEN NotDoc
      ELSE IF s[m] = Quote THEN
        LET q2 == CloseQuote(s, m + 1) IN
        IF q2 = 0 THEN NotDoc
        ELSE
          LET val == SubSeq(s, m + 1, q2 - 1) IN
          IF ~Plain(val) THEN NotDoc
          ELSE Document(s, q2 + 1, nested, DictSet(acc, key, <<"str", val>>))
      ELSE IF s[m] = "{" THEN
        LET r == Document(s, m + 1, TRUE, <<>>) IN
        IF ~r.ok THEN NotDoc
        ELSE Document(s, r.next, nested, DictSet(acc, key, <<"dict", r.map>>))
      ELSE NotDoc

Denoted == Document(vdf.input, 1, FALSE, <<>>)

(***************************************************************************)
(* C9.  For every input that follows the grammar, with any whitespace      *)
(* between tokens (none and newlines included), parse_vdf returns the      *)
(* nested mapping the grammar denotes: a "{" starts a nested parse on the  *)
(* same stream, the matching "}" gives that mapping as the value, and the  *)
(* outer parse goes on with the character after it.                        *)
(***************************************************************************)
C9_ParsesGrammar ==
  (vdf.res # "none" /\ Denoted.ok)
     => vdf.res = "returned" /\ vdf.data = Denoted.map

\* A nested mapping that holds a pair, followed by a further pair of the
\* outer document, with no whitespace between the tokens: ""{""""}"a"""
C9_Witness ==
  /\ vdf.res = "returned" /\ Denoted.ok
  /\ Len(vdf.data) = 2
  /\ vdf.data[1][2][1] = "dict" /\ Len(vdf.data[1][2][2]) = 1
  /\ vdf.data[2] = << <<"a">>, <<"str", <<>>>> >>

(***************************************************************************)
(* C10.  End of input is an error exactly when the document is incomplete: *)
(* at the top level in a state other than WAIT_KEY it raises "end of file  *)
(* inside key/value pair", with a nested "{" open it raises "end of file   *)
(* inside braces", at the top level in WAIT_KEY the mapping is returned;   *)
(* and a "}" read at the top level while waiting for a key is a parse      *)
(* error, not the end of the document.                                     *)
(***************************************************************************)
C10_EndOfInput ==
  [][ /\ (vdf.res = "none" /\ vdf'.res # "none" /\ vdf'.input = vdf.input)
         => IF Len(vdf.frames) > 1
            THEN vdf'.res = "ParseError" /\ vdf'.msg = "end of file inside braces"
            ELSE IF Top(vdf).state # WAIT_KEY
            THEN /\ vdf'.res = "ParseError"
                 /\ vdf'.msg = "end of file inside key/value pair"
            ELSE vdf'.res = "returned" /\ vdf'.data = Top(vdf).data
      /\ ( /\ vdf.res = "none" /\ Len(vdf.frames) = 1
           /\ Top(vdf).state = WAIT_KEY
           /\ vdf'.input = Append(vdf.input, "}") )
         => vdf'.res = "ParseError" /\ vdf'.msg = "expected space or quote"
    ]_vars

\* The stream "a"{"a ends inside a key of a nested document.
C10_Witness ==
  /\ vdf.input = <<Quote, "a", Quote, "{", Quote, "a">>
  /\ vdf.res = "ParseError"
  /\ vdf.msg = "end of file inside braces"

(***************************************************************************)
(* C11.  The ParseError raised for a character that may not stand where a  *)
(* key or a value is awaited carries the 1-based line and the 0-based      *)
(* column of that character, on every line and at every nesting depth.     *)
(***************************************************************************)
\* The newlines before the last character of s.
NewlinesBefore(s) == { i \in 1..(Len(s) - 1) : s[i] = Newline }

\* The 1-based line of the last character of s.
LineOfLast(s) == 1 + Cardinality(NewlinesBefore(s))

\* The 0-based column of the last character of s: the number of characters
\* between it and the start of its line.
ColOfLast(s) ==
  LET N == NewlinesBefore(s)
      start == IF N = {} THEN 0 ELSE CHOOSE i \in N : \A j \in N : j <= i
  IN Len(s) - start - 1

C11_ErrorPosition ==
  (vdf.res = "ParseError" /\ vdf.msg = "expected space or quote")
     => vdf.line = LineOfLast(vdf.input) /\ vdf.col = ColOfLast(vdf.input)

(***************************************************************************)
(* The grammar with backslash escapes: a backslash inside a string takes   *)
(* the next character with it, only an unescaped quote ends the string,    *)
(* and the string denotes what its body decodes to as a string literal.    *)
(***************************************************************************)
\* Where the text s is after its last character: outside a string ("out"),
\* inside one ("in"), or inside one right after a backslash ("esc").
RECURSIVE Scan(_)
Scan(s) ==
  IF s = <<>> THEN "out"
  ELSE LET before == Scan(SubSeq(s, 1, Len(s) - 1))
           c == s[Len(s)]
       IN IF before = "out" THEN (IF c = Quote THEN "in" ELSE "out")
          ELSE IF before = "esc" THEN "in"
          ELSE IF c = Backslash THEN "esc"
          ELSE IF c = Quote THEN "out"
          ELSE "in"

\* The place of the first unescaped quote at or after i; 0 if there is none.
RECURSIVE CloseQuoteEsc(_, _)
CloseQuoteEsc(s, i) ==
  IF i > Len(s) THEN 0
  ELSE IF s[i] = Quote THEN i
  ELSE IF s[i] = Backslash THEN CloseQuoteEsc(s, i + 2)
  ELSE CloseQuoteEsc(s, i + 1)

RECURSIVE DocumentEsc(_, _, _, _)
DocumentEsc(s, i, nested, acc) ==
  LET j == SkipWs(s, i) IN
  IF j > Len(s)
  THEN IF nested THEN NotDoc ELSE [ok |-> TRUE, map |-> acc, next |-> j]
  ELSE IF s[j] = "}"
  THEN IF nested THEN [ok |-> TRUE, map |-> acc, next |-> j + 1] ELSE NotDoc
  ELSE IF s[j] # Quote THEN NotDoc
  ELSE
    LET q == CloseQuoteEsc(s, j + 1) IN
    IF q = 0 THEN NotDoc
    ELSE
      LET key == Unescape(SubSeq(s, j + 1, q - 1))
          m == SkipWs(s, q + 1)
      IN
      IF ~key.ok \/ m > Len(s) THEN NotDoc
      ELSE IF s[m] = Quote THEN
        LET q2 == CloseQuoteEsc(s, m + 1) IN
        IF q2 = 0 THEN NotDoc
        ELSE
          LET val == Unescape(SubSeq(s, m + 1, q2 - 1)) IN
          IF ~val.ok THEN NotDoc
          ELSE DocumentEsc(s, q2 + 1, nested,
                           DictSet(acc, key.val, <<"str", val.val>>))
      ELSE IF s[m] = "{" THEN
        LET r == DocumentEsc(s, m + 1, TRUE, <<>>) IN
        IF ~r.ok THEN NotDoc
        ELSE DocumentEsc(s, r.next, nested,
                         DictSet(acc, key.val, <<"dict", r.map>>))
      ELSE NotDoc

DenotedEsc == DocumentEsc(vdf.input, 1, FALSE, <<>>)

(***************************************************************************)
(* C12.  Inside a quoted key or value a backslash escapes the next         *)
(* character: a quote read right after a backslash does not end the string *)
(* (the parser goes on reading the same key or value), and a text whose    *)
(* strings use escapes parses to the mapping of the decoded strings.       *)
(***************************************************************************)
C12_Escapes ==
  /\ ( /\ vdf.input # <<>>
       /\ vdf.input[Len(vdf.input)] = Quote
       /\ Scan(SubSeq(vdf.input, 1, Len(vdf.input) - 1)) = "esc" )
     => vdf.res = "none" /\ Top(vdf).state \in {KEY, VALUE}
  /\ (vdf.res # "none" /\ DenotedEsc.ok)
     => vdf.res = "returned" /\ vdf.data = DenotedEsc.map

(***************************************************************************)
(* C13.  A type conflict is a fatal error that leaves no unrecorded        *)
(* partial state: when a run has aborted with an error, every mutation it  *)
(* made to the disk is reflected in the persisted record, also when the    *)
(* conflicting path had a pending Remove from the uninstall planning of    *)
(* the same pass.                                                          *)
(***************************************************************************)
\* The persisted record says of path k what the disk holds there.
Reflected(k) ==
  IF disk[k] = Absent
  THEN metaDisk.kind = "json" => ~HasKey(metaDisk.files, k)
  ELSE /\ metaDisk.kind = "json"
       /\ HasKey(metaDisk.files, k)
       /\ GetItem(metaDisk.files, k) =
            IF disk[k] = DirEntry THEN M_HASH_DIR ELSE hash(disk[k][2])

Aborted ==
  pc = "idle" /\ hist # <<>> /\ hist[Len(hist)].res = "raised"

C13_NoUnrecordedState ==
  Aborted =>
    /\ stray = {}
    /\ \A k \in NKeys : disk[k] # disk0[k] => Reflected(k)

(***************************************************************************)
(* One run on a root whose record another process may replace, create or   *)
(* delete between the construction of the Installer and its commit.        *)
(***************************************************************************)
\* The path of the record file in the root.
MetaKey == <<"overviewer-bg3-mods.meta">>

\* What the other process can leave at the path of the record.
OtherRecords ==
  {NoFile, EmptyFile}
    \cup { JsonFile([version |-> M_VERSION, files |-> f]) :
             f \in { g \in RecordFiles : \A i \in DOMAIN g : g[i][1] \in NKeys } }

\* The record is changed by someone else right before commit is called.
ChangeRecord ==
  /\ pc = "previewed"
  /\ edited = {}
  /\ \E md \in OtherRecords :
       /\ md # metaDisk
       /\ metaDisk' = md
  /\ edited' = {<<MetaKey, 0>>}
  /\ UNCHANGED <<disk, stray, sources, ins, pc, idx, preview, out, hist, disk0, recStart>>
  /\ UNCHANGED aux

InitConc ==
  /\ disk \in StartDisks
  /\ stray = {}
  /\ metaDisk \in OtherRecords \ {EmptyFile}
  /\ sources \in TreeSeqs
  /\ ins = NoInstaller
  /\ pc = "idle"
  /\ idx = 0
  /\ preview = <<>>
  /\ out = <<>>
  /\ hist = << Run(<<>>, "past") >>
  /\ disk0 = disk
  /\ rec0 = metaDisk
  /\ recStart = NoFile
  /\ edited = {}
  /\ calls = NoCalls
  /\ vdf = NoVdf

NextConc ==
  \/ Construct
  \/ PlanUninstall
  \/ PlanInstallTree
  \/ Summarize
  \/ ChangeRecord
  \/ CommitOpen
  \/ CommitCheck
  \/ CommitDump
  \/ CommitApply
  \/ CommitTruncate
  \/ CommitClose
  \/ CommitRemove

SpecConc == InitConc /\ [][NextConc]_vars

(***************************************************************************)
(* C14.  Concurrent-modification detection: once the record on disk        *)
(* differs from the snapshot the Installer loaded (it was changed, created *)
(* or deleted in between), commit performs no disk mutation and does not   *)
(* overwrite, truncate or create the record file, and the run ends by      *)
(* aborting.                                                               *)
(***************************************************************************)
RecordChanged == edited = {<<MetaKey, 0>>}

C14_ConcurrentModification ==
  /\ [][ RecordChanged =>
           (disk' = disk /\ stray' = stray /\ metaDisk' = metaDisk) ]_vars
  /\ []( (RecordChanged /\ pc = "idle") => hist[Len(hist)].res = "died" )

(***************************************************************************)
(* One uninstall run (Installer, uninstall, summarize, commit) on any disk *)
(* with any record of the form the tool writes: normalized keys, each      *)
(* recorded as a directory or with the fingerprint of a content.           *)
(***************************************************************************)
\* The order of the keys in the record: the order they were installed in.
KeyOrder ==
  << <<"y">>, <<"bin">>, <<"bin", "x">>, <<"bin", "x", "x">>,
     <<"bin", "bink2w64.dll">> >>

NotRecorded == <<"none", 0>>

\* The record that lists the keys k with r[k] # NotRecorded.
RecordOf(r) ==
  LET keys == SelectSeq(KeyOrder, LAMBDA k : r[k] # NotRecorded)
  IN [i \in 1..Len(keys) |-> <<keys[i], r[keys[i]]>>]

ToolRecords ==
  { RecordOf(r) : r \in [NKeys -> {NotRecorded} \cup RecordValues] }

InitUndo ==
  /\ disk \in DiskStates
  /\ stray = {}
  /\ metaDisk \in { JsonFile([version |-> M_VERSION, files |-> f]) : f \in ToolRecords }
  /\ sources = <<>>
  /\ ins = NoInstaller
  /\ pc = "idle"
  /\ idx = 0
  /\ preview = <<>>
  /\ out = <<>>
  /\ hist = << Run(<<>>, "past") >>
  /\ disk0 = disk
  /\ rec0 = metaDisk
  /\ recStart = NoFile
  /\ edited = {}
  /\ calls = NoCalls
  /\ vdf = NoVdf

NextUndo ==
  \/ Construct
  \/ PlanUninstall
  \/ Summarize
  \/ CommitOpen
  \/ CommitCheck
  \/ CommitDump
  \/ CommitApply
  \/ CommitTruncate
  \/ CommitClose
  \/ CommitRemove

SpecUndo == InitUndo /\ [][NextUndo]_vars

(***************************************************************************)
(* Which recorded paths an uninstall is to remove, by the rule of the      *)
(* decision table: a recorded file goes when it is a file on disk with the *)
(* recorded fingerprint and is not protected; a recorded directory goes    *)
(* when it is a directory on disk and each of its children goes.           *)
(***************************************************************************)
Recorded(files, k) == HasKey(files, k)

RECURSIVE Goes(_, _, _)
Goes(d, files, k) ==
  /\ Recorded(files, k)
  /\ k \notin blacklist_keys
  /\ IF GetItem(files, k) = M_HASH_DIR
     THEN /\ RealIsDir(d, k)
          /\ \A c \in RealChildren(d, k) : Goes(d, files, c)
     ELSE /\ RealIsFile(d, k)
          /\ GetItem(files, k) = hash(d[k][2])

\* As Goes, whether or not the directory k itself is protected.
EmptyOnceCleared(d, files, k) ==
  /\ RealIsDir(d, k)
  /\ \A c \in RealChildren(d, k) : Goes(d, files, c)

RecordedDirs(d, files) ==
  { k \in NKeys : /\ Recorded(files, k) /\ GetItem(files, k) = M_HASH_DIR
                  /\ RealIsDir(d, k) }

HasRemove(ch, k) == HasKey(ch, k) /\ GetItem(ch, k) = OpNone

\* The run has planned uninstall and nothing else.
UninstallPlanned ==
  /\ hist # <<>>
  /\ CurPlan = << <<"uninstall", 0>> >>
  /\ hist[Len(hist)].res \in {"running", "done"}

ChildrenFirst(files) ==
  LET keys == SortByLen([i \in 1..Len(files) |-> files[i][1]]) IN
  \A i, j \in 1..Len(keys) :
     (keys[i] # keys[j] /\ IsPrefix(keys[i], keys[j])) => j < i

Unrecorded == { k \in NKeys : disk[k] # disk0[k] /\ ~Reflected(k) }

C16_RecordedBeforeApplied ==
  pc \in CommitPcs => Unrecorded = {}

(***************************************************************************)
(* C17.  At every point during commit the operations applied to the disk   *)
(* and the operations the persisted record reflects differ by at most one  *)
(* operation, and at the end of every loop iteration they are the same.    *)
(***************************************************************************)
C17_AtMostOneApart ==
  pc \in CommitPcs =>
    /\ Cardinality(Unrecorded) <= 1
    /\ pc = "loop" => Unrecorded = {}

(***************************************************************************)
(* C18.  Record lifecycle: when commit returns normally, the record file   *)
(* exists if and only if the record lists at least one path, and then its  *)
(* content is the in-memory record; so an uninstall that removes every     *)
(* recorded entry deletes the file, and a commit with an empty plan on a   *)
(* root without record leaves none behind.                                 *)
(***************************************************************************)
C18_RecordLifecycle ==
  [][ (pc = "closed" /\ pc' = "idle" /\ hist'[Len(hist')].res = "done") =>
        /\ (metaDisk'.kind # "absent") <=> (ins.meta.files # <<>>)
        /\ metaDisk'.kind # "absent" => metaDisk' = JsonFile(ins.meta)
        /\ (recStart = NoFile /\ ins.meta.files = <<>>) => metaDisk' = NoFile
    ]_vars

\* An uninstall has been committed that removed every entry of a record of
\* three paths, and the record file is gone.
C18_Witness ==
  /\ pc = "idle" /\ Len(hist) = 2 /\ UndoRun(hist[2])
  /\ recStart.kind = "json" /\ Len(recStart.files) = 3
  /\ metaDisk = NoFile

(***************************************************************************)
(* Uninstall runs, one after the other, on any disk with any record the    *)
(* tool writes; the commit of a run can be killed between two steps.       *)
(***************************************************************************)
\* The records whose fingerprints are all of the content 1 (a file with
\* another content on disk is a modified one).
RedoRecords ==
  { RecordOf(r) : r \in [NKeys -> {NotRecorded, M_HASH_DIR, hash(1)}] }

InitRedo ==
  /\ disk \in DiskStates
  /\ stray = {}
  /\ metaDisk \in { JsonFile([version |-> M_VERSION, files |-> f]) : f \in RedoRecords }
  /\ sources = <<>>
  /\ ins = NoInstaller
  /\ pc = "idle"
  /\ idx = 0
  /\ preview = <<>>
  /\ out = <<>>
  /\ hist = <<>>
  /\ disk0 = disk
  /\ rec0 = metaDisk
  /\ recStart = NoFile
  /\ edited = {}
  /\ calls = NoCalls
  /\ vdf = NoVdf

NextRedo ==
  \/ Construct
  \/ PlanUninstall
  \/ Summarize
  \/ CommitOpen
  \/ CommitCheck
  \/ CommitDump
  \/ CommitApply
  \/ CommitTruncate
  \/ CommitClose
  \/ CommitRemove
  \/ Crash

SpecRedo == InitRedo /\ [][NextRedo]_vars

(***************************************************************************)
(* C19.  Undo is idempotent and resumable: after an uninstall committed to *)
(* completion, a fresh Installer's uninstall plans nothing; after an       *)
(* uninstall commit interrupted after some removals, the rerun loads the   *)
(* record and plans exactly the removals not yet applied.                  *)
(***************************************************************************)
\* The removals the first uninstall planned.
FirstPlan == uninstall(disk0, NewInstaller(disk0, rec0)).changes

RemoveKeys(ch) == { ch[i][1] : i \in { j \in 1..Len(ch) : ch[j][2] = OpNone } }

\* Those of them the first commit applied.
AppliedRemovals == { k \in RemoveKeys(FirstPlan) : disk[k] = Absent }

OnlyUninstall(r) == r.plan = << <<"uninstall", 0>> >>

\* The second run has just planned its uninstall.
Rerun ==
  /\ Len(hist) = 2 /\ OnlyUninstall(hist[1]) /\ OnlyUninstall(hist[2])
  /\ pc = "plan"

C19_UndoResumable ==
  /\ (Rerun /\ hist[1].res = "done") => ins.changes = <<>>
  /\ ( /\ Len(hist) = 2 /\ hist[1].res = "crashed"
       /\ AppliedRemovals # {} )
     => /\ hist[2].res # "died"
        /\ Rerun =>
             /\ RemoveKeys(ins.changes) = RemoveKeys(FirstPlan) \ AppliedRemovals
             /\ Len(ins.changes) = Cardinality(RemoveKeys(ins.changes))

\* The first commit was killed after its first removal (of bin/x/x) and
\* before the record was touched again; the rerun plans the other two.
C19_Witness ==
  /\ Rerun /\ hist[1].res = "crashed"
  /\ RemoveKeys(FirstPlan) = {<<"bin", "x", "x">>, <<"bin", "x">>, <<"bin">>}
  /\ AppliedRemovals = {<<"bin", "x", "x">>}
  /\ ins.changes = << <<<<"bin", "x">>, OpNone>>, <<<<"bin">>, OpNone>> >>

(***************************************************************************)
(* C20.  listdir(path) returns exactly the names of the real children of   *)
(* path that exist as seen through the overlay together with the names of  *)
(* the pending entries that are direct children of path, each name once,   *)
(* for every directory, the root of the overlay included.                  *)
(***************************************************************************)
NameOf(k) == <<k[Len(k)]>>

\* The names listdir is to return for path on disk d under the changes ch.
ChildNames(d, ch, path) ==
  { NameOf(c) : c \in { r \in RealChildren(d, path) : exists(d, ch, r) } }
    \cup { NameOf(ch[i][1]) :
             i \in { j \in 1..Len(ch) : /\ ch[j][2] # OpNone
                                        /\ ch[j][1] # Root
                                        /\ Parent(ch[j][1]) = path } }

C20_ListdirIsUnion ==
  calls.last[1] = "listdir" =>
    /\ { calls.listed[i] : i \in 1..Len(calls.listed) }
         = ChildNames(disk, ins.changes, calls.last[2])
    /\ \A i, j \in 1..Len(calls.listed) :
         i # j => calls.listed[i] # calls.listed[j]

\* C20 witness: listdir has been called on a directory that holds a real
\* child still present through the overlay and a pending child beside it.
C20_Witness ==
  /\ calls.last[1] = "listdir"
  /\ \E r \in RealChildren(disk, calls.last[2]) :
       /\ exists(disk, ins.changes, r)
       /\ \E i \in 1..Len(ins.changes) :
            /\ ins.changes[i][2] # OpNone
            /\ ins.changes[i][1] # Root
            /\ Parent(ins.changes[i][1]) = calls.last[2]
            /\ ins.changes[i][1] # r

(***************************************************************************)
(* C21.  The overlay queries put a pending entry before the disk: for a    *)
(* path with a pending entry exists, isdir and isfile answer from the      *)
(* entry alone (Remove: all three false; CreateDirectory: exists and isdir *)
(* true, isfile false; CreateFile: exists and isfile true, isdir false)    *)
(* whatever is on disk; for a path with no pending entry they answer from  *)
(* the disk.  So isdir and isfile are never both true and each implies     *)
(* exists.                                                                 *)
(***************************************************************************)
\* What the three queries are to answer for an entry of the given kind.
Answers(kind) ==
  CASE kind = "none" -> <<FALSE, FALSE, FALSE>>
    [] kind = "dir" -> <<TRUE, TRUE, FALSE>>
    [] kind = "file" -> <<TRUE, FALSE, TRUE>>
    [] kind = "absent" -> <<FALSE, FALSE, FALSE>>

\* The kind of the pending entry of key k, "nothing" when there is none.
PendingKind(ch, k) ==
  IF \E i \in 1..Len(ch) : ch[i][1] = k
  THEN (ch[CHOOSE i \in 1..Len(ch) : ch[i][1] = k][2])[1]
  ELSE "nothing"

Queried(d, ch, p) == <<exists(d, ch, p), isdir(d, ch, p), isfile(d, ch, p)>>

C21_PendingBeforeDisk ==
  \A p \in NKeys \cup {Root} :
    LET q == Queried(disk, ins.changes, p)
        kind == PendingKind(ins.changes, p)
    IN /\ kind # "nothing" => q = Answers(kind)
       /\ kind = "nothing" =>
            q = Answers(IF p = Root THEN "dir" ELSE disk[p][1])
       /\ ~(q[2] /\ q[3])
       /\ (q[2] \/ q[3]) => q[1]

\* C21 witness: after a planning call some path has a pending Remove over
\* something on disk, and some path a pending creation over nothing or
\* over a file of another content.
C21_Witness ==
  /\ calls.n > 0
  /\ \E p \in NKeys :
       /\ PendingKind(ins.changes, p) = "none"
       /\ disk[p] # Absent
  /\ \E p \in NKeys :
       /\ PendingKind(ins.changes, p) \in {"dir", "file"}
       /\ disk[p][1] # PendingKind(ins.changes, p)

(***************************************************************************)
(* C22.  The plan records only actual changes: after any sequence of       *)
(* makedir, makedirs, rmdir, install_file, remove_file and install_tree    *)
(* calls on an unchanging disk, every pending CreateDirectory is for a     *)
(* path that is not a directory on disk, every pending Remove is for a     *)
(* path that exists on disk, and every pending CreateFile is for a path    *)
(* where the disk holds no file of the content of the entry's source.      *)
(***************************************************************************)
ActualChange(d, e) ==
  LET k == e[1]
      v == e[2]
  IN /\ v = OpDir => ~RealIsDir(d, k)
     /\ v = OpNone => RealExists(d, k)
     /\ v[1] = "file" => RealEntry(d, k) # FileEntry(SrcContent(v[2]))

C22_OnlyActualChanges ==
  /\ disk = disk0
  /\ \A i \in 1..Len(ins.changes) : ActualChange(disk, ins.changes[i])

\* C22 witness: three calls have been made, the last one dropped an entry
\* that was queued before it, and entries of two kinds are still queued.
C22_Witness ==
  /\ calls.n = MaxCalls
  /\ \E i \in 1..Len(calls.before) :
       \A j \in 1..Len(ins.changes) : ins.changes[j][1] # calls.before[i][1]
  /\ \E i, j \in 1..Len(ins.changes) : ins.changes[i][2][1] # ins.changes[j][2][1]

(***************************************************************************)
(* One run of the tool that plans an uninstall and the install of a source *)
(* tree and commits, on any disk with a record of what an earlier run left *)
(* there: the record lists directories and files that are on the disk,     *)
(* the files with the fingerprint of the content 1 (a file of another      *)
(* content has been modified since).                                       *)
(***************************************************************************)
\* What the record can say of key k on disk d.
PlanValues(d, k) ==
  IF d[k] = DirEntry THEN {NotRecorded, M_HASH_DIR}
  ELSE IF d[k] = Absent THEN {NotRecorded}
  ELSE {NotRecorded, hash(1)}

PlanRecords(d) ==
  { RecordOf(r) : r \in { f \in [NKeys -> {NotRecorded, M_HASH_DIR, hash(1)}] :
                            \A k \in NKeys : f[k] \in PlanValues(d, k) } }

InitPlan ==
  /\ disk \in DiskStates
  /\ stray = {}
  /\ metaDisk \in { JsonFile([version |-> M_VERSION, files |-> f]) : f \in PlanRecords(disk) }
  /\ sources \in TreeSeqs
  /\ ins = NoInstaller
  /\ pc = "idle"
  /\ idx = 0
  /\ preview = <<>>
  /\ out = <<>>
  /\ hist = << Run(<<>>, "past") >>
  /\ disk0 = disk
  /\ rec0 = metaDisk
  /\ recStart = NoFile
  /\ edited = {}
  /\ calls = NoCalls
  /\ vdf = NoVdf

NextPlan ==
  \/ Construct
  \/ PlanUninstall
  \/ PlanInstallTree
  \/ Summarize
  \/ CommitOpen
  \/ CommitCheck
  \/ CommitDump
  \/ CommitApply
  \/ CommitTruncate
  \/ CommitClose
  \/ CommitRemove

SpecPlan == InitPlan /\ [][NextPlan]_vars

(***************************************************************************)
(* C23.  The pending sequence holds at most one entry per normalized path, *)
(* re-targeting a path replaces its entry and moves it to the end, and the *)
(* order is applicable: in every plan made by uninstall followed by        *)
(* install_tree calls each CreateFile or CreateDirectory comes after the   *)
(* CreateDirectory of its parent unless the parent is a directory on disk  *)
(* that the plan does not remove, and each Remove of a directory comes     *)
(* after the Remove of every child it has on disk, so that applying the    *)
(* entries in order never fails for a missing parent or a non-empty        *)
(* directory.                                                              *)
(***************************************************************************)
\* The plan is that of an uninstall followed by install_tree calls, and
\* nothing of it has been applied yet.
PlanMade ==
  /\ pc \in {"plan", "previewed"}
  /\ CurPlan # <<>>
  /\ CurPlan[1][1] = "uninstall"

\* What uninstall alone queued in this run.
UninstallPlan == uninstall(disk0, NewInstaller(disk0, rec0)).changes

OnePerPath(ch) ==
  \A i, j \in 1..Len(ch) : ch[i][1] = ch[j][1] => i = j

\* The entries uninstall queued that are still as queued keep their order
\* and come before everything queued or re-targeted after it.
MovedToEnd(ch) ==
  LET U == UninstallPlan
      Kept(i) == \E u \in 1..Len(U) : U[u] = ch[i]
  IN /\ \A i, j \in 1..Len(ch) : (Kept(j) /\ ~Kept(i)) => j < i
     /\ \A i, j \in 1..Len(ch) : \A u, w \in 1..Len(U) :
          (i < j /\ U[u] = ch[i] /\ U[w] = ch[j]) => u < w

ParentFirst(d, ch) ==
  \A i \in 1..Len(ch) :
    (ch[i][2] # OpNone /\ Parent(ch[i][1]) # Root) =>
      \/ \E j \in 1..(i - 1) : ch[j] = <<Parent(ch[i][1]), OpDir>>
      \/ /\ RealIsDir(d, Parent(ch[i][1]))
         /\ ~HasRemove(ch, Parent(ch[i][1]))

ChildrenRemovedFirst(d, ch) ==
  \A i \in 1..Len(ch) :
    (ch[i][2] = OpNone /\ RealIsDir(d, ch[i][1])) =>
      \A c \in RealChildren(d, ch[i][1]) :
        \E j \in 1..(i - 1) : ch[j] = <<c, OpNone>>

\* The change commit is about to apply fails for a missing parent or for
\* a directory that is not empty.
FailsForOrder(d, k, v) ==
  IF v = OpNone THEN RealIsDir(d, k) /\ RealChildren(d, k) # {}
  ELSE ~RealIsDir(d, Parent(k))

C23_PlanOrderApplicable ==
  /\ PlanMade =>
       /\ OnePerPath(ins.changes)
       /\ MovedToEnd(ins.changes)
       /\ ParentFirst(disk, ins.changes)
       /\ ChildrenRemovedFirst(disk, ins.changes)
  /\ ( /\ pc = "loop"
       /\ idx <= Len(ins.changes)
       /\ CurPlan # <<>>
       /\ CurPlan[1][1] = "uninstall" )
     => ~FailsForOrder(disk, ins.changes[idx][1], ins.changes[idx][2])

\* C23 witness: uninstall and an install_tree have planned; an entry of
\* uninstall has been re-targeted to a creation and another Remove of
\* uninstall is still queued before it, and a file is queued after the
\* CreateDirectory of its parent.
C23_Witness ==
  /\ PlanMade
  /\ Len(CurPlan) = 2
  /\ \E i, j \in 1..Len(ins.changes) :
       /\ i < j
       /\ ins.changes[i][2] = OpNone
       /\ ins.changes[j][2] # OpNone
       /\ HasRemove(UninstallPlan, ins.changes[j][1])
  /\ \E i, j \in 1..Len(ins.changes) :
       /\ i < j
       /\ ins.changes[i] = <<Parent(ins.changes[j][1]), OpDir>>
       /\ ins.changes[j][2][1] = "file"

====
